---- MODULE Spec2Model ----
(***************************************************************************)
(* Team/member directory service with e-mail OTP login.                    *)
(*                                                                         *)
(* The model follows the latest server file (src/unnamed/part_000): one    *)
(* collection of documents, each holding teams[].members[], and the        *)
(* request handlers /login/validation, /login/verify-otp, /save/data,      *)
(* /delete/member, /update/member, /position/change and /get/team.         *)
(* Each handler is one action; the response it sends is kept in `last`.    *)
(*                                                                         *)
(* Spec is the whole service.  SpecStore is Spec without the two login     *)
(* handlers, which leave the collection and the ObjectId counter as they   *)
(* are; the properties of the team/member handlers are checked under it.   *)
(* SpecConc runs two requests of /save/data, /update/member and            *)
(* /delete/member concurrently, one step per await, on the shared          *)
(* MongoClient that connectToMongoDB() hands out.                          *)
(***************************************************************************)
EXTENDS Integers, Sequences, FiniteSets, TLC

VARIABLES
    docs,       \* the collection: sequence of documents [_id, teams, updatedAt]
    otpStore,   \* contents the OTP map would have (no handler ever writes it)
    inbox,      \* per recipient: newest verification mail and the code before it
    now,        \* the clock (Date.now() / new Date())
    nextOid,    \* counter behind new ObjectId()
    last,       \* the last request, the response it received (and, for
                \* /update/member, the _id of the document it wrote back)
    procs,      \* the requests in flight: per request its handler, the
                \* await it stands at, its local variables and its response
    mongoClient,\* the shared client instance (0: null, p: the one request p made)
    clients     \* per MongoClient object (named by the request that made
                \* it): "none", "connecting", "open" or "closed"

vars == <<docs, otpStore, inbox, now, nextOid, last, procs, mongoClient, clients>>

\* the state of the requests in flight and of the shared client
conc == <<procs, mongoClient, clients>>

\* the requests that run concurrently
Requests == {1, 2}

(* Bounds of the model *)

MaxTime == 4        \* the clock stops here; every request takes one tick
MaxCreates == 2     \* number of ObjectIds /save/data may mint
OtpTtl == 1         \* the "fixed TTL" of the specification; the code sets none

(* JavaScript values *)

Undefined == "undefined"

Truthy(v) == v # Undefined /\ v # ""

\* a || b on strings
Or(a, b) == IF Truthy(a) THEN a ELSE b

\* a ?? b
Nullish(a, b) == IF a # Undefined THEN a ELSE b

\* obj.f, undefined when the property is missing
Get(obj, f) == IF f \in DOMAIN obj THEN obj[f] ELSE Undefined

Has(obj, f) == f \in DOMAIN obj

SeqToSet(s) == {s[i] : i \in 1..Len(s)}

RECURSIVE SelectIdx(_, _, _)
\* Array.prototype.findIndex, 1-based; 0 stands for -1
SelectIdx(s, P(_), i) ==
    IF i > Len(s) THEN 0
    ELSE IF P(s[i]) THEN i
    ELSE SelectIdx(s, P, i + 1)

FindIndex(s, P(_)) == SelectIdx(s, P, 1)

\* Array.prototype.splice(i, 1)
Splice1(s, i) == SubSeq(s, 1, i - 1) \o SubSeq(s, i + 1, Len(s))

(* Identifiers fixed by the code *)

AllTeamId == "634eefb4b35a8abf6acbdd2a"
HR_FINANCE_TEAM_ID == "634eefb4b35a8abf6acbdd3a"
TechTeamId == "634eefb4b35a8abf6acbdd2c"
OtherTeamId == "team-x"         \* a team the static label table does not know
NoTeamId == "team-none"         \* an id no document has

\* teamOptions.find(option => option.value === teamId)?.label
teamOptions(teamId) ==
    IF teamId = HR_FINANCE_TEAM_ID THEN "HR & Finance"
    ELSE IF teamId = TechTeamId THEN "Technology"
    ELSE Undefined

\* new ObjectId().toString()
ObjectId(n) == "oid" \o ToString(n)

(* E-mail addresses *)

AnnMail == "ann@x.io"
AnnMailRaw == " Ann@X.io "
BobMail == "bob@x.io"

Emails == {AnnMail, AnnMailRaw, BobMail}

\* String.prototype.trim on the addresses of the model
Trim(s) == IF s = " Ann@X.io " THEN "Ann@X.io" ELSE s

\* String.prototype.toLowerCase on the addresses of the model
ToLowerCase(s) == IF s = "Ann@X.io" THEN "ann@x.io"
                  ELSE IF s = " Ann@X.io " THEN " ann@x.io "
                  ELSE s

cleanEmail(email) == ToLowerCase(Trim(email))

\* generateSixDigitCode(): floor(100000 + random * 900000) as a string
Codes == {"100000", "999999"}

NoRecord == [otp |-> Undefined, expiresAt |-> 0]
NoMail == [code |-> Undefined, at |-> 0, prev |-> Undefined]

(* The collection *)

\* every member payload of every entry of every team of document d
DocEntries(d) ==
    UNION { SeqToSet(d.teams[t].members) : t \in 1..Len(d.teams) }

\* filter {"teams.members.memberID.email": email}
DocHasEmail(d, email) == \E e \in DocEntries(d) : Get(e.memberID, "email") = email

\* filter {"teams.members.memberID._id": id}
DocHasMember(d, id) == \E e \in DocEntries(d) : e.memberID._id = id

\* filter {"teams._id": teamId}
DocHasTeam(d, teamId) == \E t \in 1..Len(d.teams) : d.teams[t]._id = teamId

\* filter {teams: {$elemMatch: {_id: teamId, members: {$elemMatch: {"memberID.email": email}}}}}
DocHasEmailInTeam(d, teamId, email) ==
    \E t \in 1..Len(d.teams) :
        /\ d.teams[t]._id = teamId
        /\ \E e \in SeqToSet(d.teams[t].members) : Get(e.memberID, "email") = email

\* findOne/updateOne: index of the first document matching the filter, 0 if none
FirstDoc(ds, F(_)) == FindIndex(ds, F)

\* the positional operator $: index of the first team with the id
TeamPos(d, teamId) == FindIndex(d.teams, LAMBDA t : t._id = teamId)

InitMember ==
    [ _id |-> "oid0", name |-> "Ann", email |-> AnnMail,
      profilePicture |-> "pic-old", bio |-> "old", designation |-> "dev",
      team |-> << [_id |-> HR_FINANCE_TEAM_ID, name |-> "HR & Finance"] >>,
      doj |-> "2020", dob |-> "1990", yoe |-> "5",
      designationText |-> "Developer",
      createdAt |-> 0, updatedAt |-> 0, __v |-> 1 ]

InitDocs ==
    << [ _id |-> "doc1", updatedAt |-> 0,
         teams |-> << [ _id |-> AllTeamId, name |-> "All",
                        members |-> << [memberID |-> InitMember] >> ],
                      [ _id |-> HR_FINANCE_TEAM_ID, name |-> "HR & Finance",
                        members |-> << [memberID |-> InitMember] >> ],
                      [ _id |-> TechTeamId, name |-> "Technology",
                        members |-> << >> ] >> ],
       [ _id |-> "doc2", updatedAt |-> 0,
         teams |-> << [ _id |-> OtherTeamId, name |-> "Other",
                        members |-> << >> ] >> ] >>

Init ==
    /\ docs = InitDocs
    /\ otpStore = [e \in {cleanEmail(m) : m \in Emails} |-> NoRecord]
    /\ inbox = [e \in Emails |-> NoMail]
    /\ now = 1
    /\ nextOid = 1
    /\ last = [op |-> "none", status |-> 0]
    /\ procs = [p \in Requests |-> [op |-> "none", pc |-> "idle"]]
    /\ mongoClient = 0
    /\ clients = [p \in Requests |-> "none"]


(* OTP login verifier *)

\* whether the file declares the identifier otpStore (it is used at 210-235
\* and declared nowhere)
otpStoreDeclared == FALSE

\* what an exception escaping an async handler turns into: the framework's
\* error middleware (500) or no response at all (0), depending on the
\* framework version that runs the file
UncaughtStatuses == {500, 0}

\* POST /login/validation, the body of the success response
loginReply(inHRTeam, code) ==
    [ emailExists |-> TRUE, inHRTeam |-> inHRTeam,
      codeSent |-> TRUE, devCode |-> code ]

\* POST /login/validation
requestLogin(email, code, dbOk, mailOk) ==
    /\ now < MaxTime
    /\ now' = now + 1
    /\ UNCHANGED <<docs, otpStore, nextOid>>
    /\ LET memberExists == \E i \in 1..Len(docs) : DocHasEmail(docs[i], email)
           inHRTeam == \E i \in 1..Len(docs) :
                          DocHasEmailInTeam(docs[i], HR_FINANCE_TEAM_ID, email)
           req == [op |-> "requestLogin", email |-> email, at |-> now]
       IN  IF ~dbOk THEN
               /\ inbox' = inbox
               /\ last' = req @@ [status |-> 500, kind |-> "error"]
           ELSE IF ~memberExists THEN
               /\ inbox' = inbox
               /\ last' = req @@ [status |-> 404, kind |-> "fail",
                                  emailExists |-> FALSE, inHRTeam |-> FALSE]
           ELSE IF ~mailOk THEN
               \* code: the code generated for the mail that was not sent
               \* (the response does not carry it)
               /\ inbox' = inbox
               /\ last' = req @@ [status |-> 500, kind |-> "error",
                                  code |-> code]
           ELSE
               /\ inbox' = [inbox EXCEPT ![email] = [code |-> code, at |-> now,
                                                   prev |-> inbox[email].code]]
               /\ last' = req @@ [status |-> 200, kind |-> "success"]
                               @@ loginReply(inHRTeam, code)

\* POST /login/verify-otp
verifyOtp(email, otp, uncaught) ==
    /\ now < MaxTime
    /\ now' = now + 1
    /\ UNCHANGED <<docs, inbox, nextOid>>
    /\ LET req == [op |-> "verifyOtp", email |-> email, otp |-> otp, at |-> now]
           key == cleanEmail(email)
           record == otpStore[key]
       IN  IF ~Truthy(email) \/ ~Truthy(otp) THEN
               /\ otpStore' = otpStore
               /\ last' = req @@ [status |-> 400, kind |-> "fail"]
           ELSE IF ~otpStoreDeclared THEN
               \* ReferenceError: otpStore is not defined
               /\ otpStore' = otpStore
               /\ last' = req @@ [status |-> uncaught, kind |-> "uncaught"]
           ELSE IF record = NoRecord THEN
               /\ otpStore' = otpStore
               /\ last' = req @@ [status |-> 404, kind |-> "fail"]
           ELSE IF now > record.expiresAt THEN
               /\ otpStore' = [otpStore EXCEPT ![key] = NoRecord]
               /\ last' = req @@ [status |-> 410, kind |-> "fail"]
           ELSE IF record.otp # otp THEN
               /\ otpStore' = otpStore
               /\ last' = req @@ [status |-> 401, kind |-> "fail"]
           ELSE
               /\ otpStore' = [otpStore EXCEPT ![key] = NoRecord]
               /\ last' = req @@ [status |-> 200, kind |-> "success"]

(* Team/member reconciler *)

API_ENDPOINT == "api"

\* lines 303-313 and 315-325: a form field holding a list, as sent by the
\* client: an array, a string holding a JSON array ("json"), a string that
\* JSON.parse rejects ("plain"), a string holding other JSON ("scalar"),
\* or nothing ("absent")
ParseList(raw) ==
    IF raw.kind = "array" THEN raw.val
    ELSE IF raw.kind = "json" THEN raw.val
    ELSE IF raw.kind = "plain" THEN << raw.val[1] >>
    ELSE << >>

\* lines 327-339
mappedTeams(teamIds, teamNames) ==
    [ index \in 1..Len(teamIds) |->
        IF index <= Len(teamNames) /\ Truthy(teamNames[index])
        THEN [_id |-> teamIds[index], name |-> teamNames[index]]
        ELSE [_id |-> teamIds[index],
              name |-> Nullish(teamOptions(teamIds[index]), "Unknown Team")] ]

\* lines 342-344
createPictureUrl(imageFile) ==
    IF imageFile # Undefined THEN API_ENDPOINT \o "/" \o imageFile ELSE ""

\* memberData that gives every member the id of the first one
memberData_ReusesId(formData, imageFile, oid, t) ==
    [ memberID |->
        [ _id |-> ObjectId(0),
          name |-> formData.name,
          email |-> Or(Get(formData, "email"), ""),
          profilePicture |-> createPictureUrl(imageFile),
          bio |-> Or(Get(formData, "content"), ""),
          designation |-> Or(Get(formData, "designation"), ""),
          team |-> mappedTeams(ParseList(formData.teamIds),
                               ParseList(formData.teamNames)),
          doj |-> Or(Get(formData, "doj"), ""),
          dob |-> Or(Get(formData, "dob"), ""),
          yoe |-> Or(Get(formData, "yoe"), ""),
          designationText |-> Or(Get(formData, "designationText"),
                                 Or(Get(formData, "designation"), "")),
          createdAt |-> t,
          updatedAt |-> t,
          __v |-> 0 ] ]

\* lines 346-363
memberData(formData, imageFile, oid, t) ==
    [ memberID |->
        [ _id |-> oid,
          name |-> formData.name,
          email |-> Or(Get(formData, "email"), ""),
          profilePicture |-> createPictureUrl(imageFile),
          bio |-> Or(Get(formData, "content"), ""),
          designation |-> Or(Get(formData, "designation"), ""),
          team |-> mappedTeams(ParseList(formData.teamIds),
                               ParseList(formData.teamNames)),
          doj |-> Or(Get(formData, "doj"), ""),
          dob |-> Or(Get(formData, "dob"), ""),
          yoe |-> Or(Get(formData, "yoe"), ""),
          designationText |-> Or(Get(formData, "designationText"),
                                 Or(Get(formData, "designation"), "")),
          createdAt |-> t,
          updatedAt |-> t,
          __v |-> 0 ] ]

\* PushToTeam that reports the update without appending the entry
PushToTeam_NoAppend(ds, teamId, entry, t) ==
    LET i == FirstDoc(ds, LAMBDA d : DocHasTeam(d, teamId))
    IN  IF i = 0 THEN [docs |-> ds, modifiedCount |-> 0]
        ELSE [ docs |-> [ds EXCEPT ![i].updatedAt = t], modifiedCount |-> 1 ]

\* updateOne({"teams._id": teamId},
\*           {$push: {"teams.$.members": entry}, $set: {updatedAt: t}})
\* result: the collection afterwards and modifiedCount
PushToTeam(ds, teamId, entry, t) ==
    LET i == FirstDoc(ds, LAMBDA d : DocHasTeam(d, teamId))
    IN  IF i = 0 THEN [docs |-> ds, modifiedCount |-> 0]
        ELSE LET k == TeamPos(ds[i], teamId)
             IN  [ docs |-> [ds EXCEPT ![i].teams[k].members = Append(@, entry),
                                       ![i].updatedAt = t],
                   modifiedCount |-> 1 ]

RECURSIVE PushLoop(_, _, _, _, _, _)
\* lines 371-390: the loop over teamIds, one updateOne per id, in order
PushLoop(ds, teamIds, i, entry, t, results) ==
    IF i > Len(teamIds) THEN [docs |-> ds, teamUpdateResults |-> results]
    ELSE LET r == PushToTeam(ds, teamIds[i], entry, t)
         IN  PushLoop(r.docs, teamIds, i + 1, entry, t,
                      Append(results, [ teamId |-> teamIds[i],
                                        success |-> r.modifiedCount > 0,
                                        modifiedCount |-> r.modifiedCount ]))

\* the older validation of POST /save/data: name, email and teamIds required
createInvalid_NeedsEmail(formData) ==
    \/ ~Truthy(Get(formData, "name"))
    \/ ~Truthy(Get(formData, "email"))
    \/ ~Truthy(Get(formData, "teamIds"))

\* POST /save/data, the validation: only name is required
createInvalid(formData) == ~Truthy(Get(formData, "name"))

\* 1 + the index of the last team of teamIds whose append ran before the
\* store call number failAt threw (failAt = 0: no call throws)
Prefix(teamIds, failAt) ==
    IF failAt = 0 THEN teamIds ELSE SubSeq(teamIds, 1, failAt - 1)

\* POST /save/data
\* failAt = k > 0: the k-th updateOne of the request throws (the append to
\* All Members is call number Len(teamIds) + 1); the catch answers 500
create(formData, imageFile, dbOk, failAt) ==
    /\ now < MaxTime
    /\ now' = now + 1
    /\ UNCHANGED <<otpStore, inbox>>
    /\ LET req == [op |-> "create", formData |-> formData, at |-> now]
       IN  IF createInvalid(formData) THEN
               /\ failAt = 0
               /\ UNCHANGED <<docs, nextOid>>
               /\ last' = req @@ [status |-> 400, kind |-> "validation"]
           ELSE
               /\ nextOid <= MaxCreates
               /\ nextOid' = nextOid + 1
               /\ IF ~dbOk THEN
                      /\ failAt = 0
                      /\ docs' = docs
                      /\ last' = req @@ [status |-> 500, kind |-> "error"]
                  ELSE
                      LET teamIds == ParseList(formData.teamIds)
                          entry == memberData(formData, imageFile,
                                              ObjectId(nextOid), now)
                          loop == PushLoop(docs, Prefix(teamIds, failAt), 1,
                                           entry, now, << >>)
                          result2 == PushToTeam(loop.docs, AllTeamId, entry, now)
                          updatedTeamCount ==
                              Cardinality({ i \in 1..Len(teamIds) :
                                            loop.teamUpdateResults[i].success })
                      IN  /\ failAt <= Len(teamIds) + 1
                          /\ IF failAt > 0 THEN
                                 /\ docs' = loop.docs
                                 /\ last' = req @@ [status |-> 500,
                                                    kind |-> "error"]
                             ELSE
                                 /\ docs' = result2.docs
                                 /\ last' = req @@
                                      [ status |-> 200, kind |-> "success",
                                        specificTeams |-> updatedTeamCount,
                                        allTeam |-> result2.modifiedCount > 0,
                                        teamUpdateDetails |->
                                            loop.teamUpdateResults,
                                        memberData |-> entry ]

\* PullMember that removes the first entry of the member in each team only
PullMember_FirstOccurrence(d, id) ==
    [ d EXCEPT !.teams =
        [ k \in 1..Len(d.teams) |->
            LET at == FindIndex(d.teams[k].members,
                                LAMBDA e : e.memberID._id = id)
            IN  IF at = 0 THEN d.teams[k]
                ELSE [ d.teams[k] EXCEPT !.members = Splice1(@, at) ] ] ]

\* PullMember that pulls from the first team only ("teams.$.members")
PullMember_FirstTeamOnly(d, id) ==
    [ d EXCEPT !.teams =
        [ k \in 1..Len(d.teams) |->
            IF k = 1
            THEN [ d.teams[k] EXCEPT !.members =
                     SelectSeq(@, LAMBDA e : e.memberID._id # id) ]
            ELSE d.teams[k] ] ]

\* $pull: {"teams.$[].members": {"memberID._id": id}} on one document
PullMember(d, id) ==
    [ d EXCEPT !.teams =
        [ k \in 1..Len(d.teams) |->
            [ d.teams[k] EXCEPT !.members =
                SelectSeq(@, LAMBDA e : e.memberID._id # id) ] ] ]

\* updateMany({"teams.members.memberID._id": id},
\*            {$pull: ..., $set: {updatedAt: t}})
PullFromAll(ds, id, t) ==
    [ docs |-> [ i \in 1..Len(ds) |->
                   IF DocHasMember(ds[i], id)
                   THEN [ PullMember(ds[i], id) EXCEPT !.updatedAt = t ]
                   ELSE ds[i] ],
      matchedCount |-> Cardinality({ i \in 1..Len(ds) : DocHasMember(ds[i], id) }),
      modifiedCount |-> Cardinality({ i \in 1..Len(ds) : DocHasMember(ds[i], id) }) ]

\* DELETE /delete/member
delete(key, dbOk) ==
    /\ now < MaxTime
    /\ now' = now + 1
    /\ UNCHANGED <<otpStore, inbox, nextOid>>
    /\ LET req == [op |-> "delete", key |-> key, at |-> now]
           memberExists == \E i \in 1..Len(docs) : DocHasMember(docs[i], key)
           result == PullFromAll(docs, key, now)
       IN  IF ~Truthy(key) THEN
               /\ docs' = docs
               /\ last' = req @@ [status |-> 400, kind |-> "validation"]
           ELSE IF ~dbOk THEN
               /\ docs' = docs
               /\ last' = req @@ [status |-> 500, kind |-> "error"]
           ELSE IF ~memberExists THEN
               /\ docs' = docs
               /\ last' = req @@ [status |-> 404, kind |-> "notfound"]
           ELSE IF result.modifiedCount = 0 THEN
               /\ docs' = result.docs
               /\ last' = req @@ [status |-> 404, kind |-> "notfound"]
           ELSE
               /\ docs' = result.docs
               /\ last' = req @@ [ status |-> 200, kind |-> "success",
                                   modifiedCount |-> result.modifiedCount,
                                   matchedCount |-> result.matchedCount ]

(* profile picture URLs of the model *)
HttpUrl == "http://cdn/new.png"
UploadUrl == " /uploads/up.png"

\* lines 566-584: the URL kept for an explicitly supplied profilePictureUrl
\* (trimmed; an uploads path is rewritten to API_ENDPOINT/<file name>)
explicitPictureUrl(raw) ==
    IF raw = UploadUrl THEN API_ENDPOINT \o "/" \o "up.png"
    ELSE raw

RECURSIVE existingPicture(_, _, _)
\* lines 587-599: the first team, in document order, whose first entry of
\* the member has a truthy profilePicture
existingPicture(allTeams, id, k) ==
    IF k > Len(allTeams) THEN ""
    ELSE LET idx == FindIndex(allTeams[k].members, LAMBDA m : m.memberID._id = id)
         IN  IF idx # 0 /\ Truthy(Get(allTeams[k].members[idx].memberID,
                                     "profilePicture"))
             THEN allTeams[k].members[idx].memberID.profilePicture
             ELSE existingPicture(allTeams, id, k + 1)

\* lines 559-600
updatePictureUrl(formData, imageFile, allTeams, id) ==
    IF imageFile # Undefined THEN API_ENDPOINT \o "/" \o imageFile
    ELSE IF Truthy(Get(formData, "profilePictureUrl"))
         THEN explicitPictureUrl(formData.profilePictureUrl)
    ELSE existingPicture(allTeams, id, 1)

\* lines 602-610: formData.team is a JSON string ("json"), an unparsable
\* string ("plain") or absent
parsedTeam(raw) == IF raw.kind = "json" THEN raw.val ELSE << >>

\* lines 612-630
updatedMember(formData, imageFile, allTeams, id, t) ==
    [ _id |-> id,
      name |-> formData.name,
      email |-> Or(Get(formData, "email"), ""),
      isActive |-> TRUE,
      created_by |-> "",
      profilePicture |-> updatePictureUrl(formData, imageFile, allTeams, id),
      bio |-> Or(Get(formData, "about"), ""),
      designation |-> Or(Get(formData, "designation"), ""),
      designationText |-> Or(Get(formData, "designationText"),
                             Or(Get(formData, "designation"), "")),
      team |-> parsedTeam(formData.team),
      doj |-> Or(Get(formData, "doj"), ""),
      dob |-> Or(Get(formData, "dob"), ""),
      yoe |-> Or(Get(formData, "yoe"), ""),
      createdAt |-> t,
      updatedAt |-> t,
      __v |-> 0 ]

\* reconcileTeam that treats All Members like any other team
reconcileTeam_DropsAll(team, teamIds, id, member) ==
    LET isSelected == team._id \in SeqToSet(teamIds)
        memberIndex == FindIndex(team.members, LAMBDA m : m.memberID._id = id)
    IN  IF isSelected THEN
            IF memberIndex # 0
            THEN [team EXCEPT !.members[memberIndex].memberID = member]
            ELSE [team EXCEPT !.members = Append(@, [memberID |-> member])]
        ELSE IF memberIndex # 0
            THEN [team EXCEPT !.members = Splice1(@, memberIndex)]
        ELSE team

\* reconcileTeam that leaves an entry already present as it was
reconcileTeam_NoReplace(team, teamIds, id, member) ==
    LET isSelected == team._id \in SeqToSet(teamIds)
        isAllTeam == team._id = AllTeamId
        memberIndex == FindIndex(team.members, LAMBDA m : m.memberID._id = id)
    IN  IF isSelected \/ isAllTeam THEN
            IF memberIndex # 0
            THEN team
            ELSE [team EXCEPT !.members = Append(@, [memberID |-> member])]
        ELSE IF ~isAllTeam /\ memberIndex # 0
            THEN [team EXCEPT !.members = Splice1(@, memberIndex)]
        ELSE team

\* lines 634-650: the body of the loop for one team
reconcileTeam(team, teamIds, id, member) ==
    LET isSelected == team._id \in SeqToSet(teamIds)
        isAllTeam == team._id = AllTeamId
        memberIndex == FindIndex(team.members, LAMBDA m : m.memberID._id = id)
    IN  IF isSelected \/ isAllTeam THEN
            IF memberIndex # 0
            THEN [team EXCEPT !.members[memberIndex].memberID = member]
            ELSE [team EXCEPT !.members = Append(@, [memberID |-> member])]
        ELSE IF ~isAllTeam /\ memberIndex # 0
            THEN [team EXCEPT !.members = Splice1(@, memberIndex)]
        ELSE team

\* lines 633-651
reconcileTeams(allTeams, teamIds, id, member) ==
    [ k \in 1..Len(allTeams) |-> reconcileTeam(allTeams[k], teamIds, id, member) ]

\* a write-back whose result reports that nothing was modified
modified_Never(newDoc, doc) == FALSE

\* lines 653-668: updateResult.modifiedCount > 0, for the $set that leaves
\* newDoc where doc was stored
modified(newDoc, doc) == newDoc # doc

\* POST /update/member
update(formData, imageFile, dbOk) ==
    /\ now < MaxTime
    /\ now' = now + 1
    /\ UNCHANGED <<otpStore, inbox, nextOid>>
    /\ LET req == [op |-> "update", formData |-> formData, at |-> now]
           memberIdToUpdate == Get(formData, "importance")
           teamIds == ParseList(formData.teamIds)
           i == FirstDoc(docs, LAMBDA d : DocHasMember(d, memberIdToUpdate))
       IN  IF ~dbOk THEN
               /\ docs' = docs
               /\ last' = req @@ [status |-> 500, kind |-> "error"]
           ELSE IF ~Truthy(memberIdToUpdate) \/ ~Truthy(Get(formData, "name")) THEN
               /\ docs' = docs
               /\ last' = req @@ [status |-> 400, kind |-> "validation"]
           ELSE IF i = 0 THEN
               /\ docs' = docs
               /\ last' = req @@ [status |-> 404, kind |-> "notfound"]
           ELSE
               LET doc == docs[i]
                   member == updatedMember(formData, imageFile, doc.teams,
                                           memberIdToUpdate, now)
                   newDoc == [doc EXCEPT
                                !.teams = reconcileTeams(doc.teams, teamIds,
                                                         memberIdToUpdate, member),
                                !.updatedAt = now]
                   modifiedCount == IF modified(newDoc, doc) THEN 1 ELSE 0
               IN  /\ docs' = [docs EXCEPT ![i] = newDoc]
                   /\ IF modifiedCount = 0
                      THEN last' = req @@ [status |-> 400, kind |-> "conflict"]
                      ELSE last' = req @@ [status |-> 200, kind |-> "success",
                                           data |-> member, doc |-> doc._id]

\* lines 717-722: item.team is a comma-separated string; the names after
\* split(",") and trim(), for the strings of the model
splitTeam(teamString) ==
    IF teamString = "Technology" THEN << "Technology" >>
    ELSE IF teamString = "HR, " THEN << "HR", "" >>
    ELSE << teamString >>

\* lines 717-722
formattedTeam(item) ==
    IF Truthy(Get(item, "team"))
    THEN LET names == splitTeam(item.team)
         IN  [ idx \in 1..Len(names) |->
                 [ name |-> names[idx],
                   _id |-> Or(names[idx], "team-" \o ToString(idx - 1)) ] ]
    ELSE << [name |-> "N/A", _id |-> "N/A"] >>

\* lines 706-732: one element of formattedData; index is the 0-based
\* position of the item.  yoe defaults to the number 0, written "0" here.
formatted(item, index, t) ==
    [ memberID |->
        [ _id |-> Nullish(Get(item, "key"), "auto-" \o ToString(index)),
          name |-> Nullish(Get(item, "name"), "N/A"),
          email |-> Nullish(Get(item, "email"), "N/A"),
          isActive |-> IF Has(item, "isActive") THEN item.isActive ELSE TRUE,
          created_by |-> Nullish(Get(item, "created_by"), "unknown"),
          profilePicture |-> Nullish(Get(item, "profilePicture"), ""),
          bio |-> Nullish(Get(item, "bio"), Nullish(Get(item, "memberDataBio"), "N/A")),
          designation |-> Nullish(Get(item, "designation"), "N/A"),
          designationText |-> Nullish(Get(item, "designation"), "N/A"),
          team |-> formattedTeam(item),
          yoe |-> Nullish(Get(item, "yoe"), "0"),
          doj |-> Nullish(Get(item, "doj"), "N/A"),
          dob |-> Nullish(Get(item, "dob"), "N/A"),
          position |-> IF Has(item, "position") THEN item.position ELSE index + 1,
          createdAt |-> IF Has(item, "createdAt") THEN item.createdAt ELSE t,
          updatedAt |-> t,
          __v |-> 0 ],
      _id |-> Nullish(Get(item, "_id"),
                      Nullish(Get(item, "key"), "fallback-" \o ToString(index))) ]

formattedData(members, t) ==
    [ i \in 1..Len(members) |-> formatted(members[i], i - 1, t) ]

\* SetTeamMembers that reports every matched document as modified
SetTeamMembers_AlwaysModified(ds, slug, data) ==
    LET i == FirstDoc(ds, LAMBDA d : DocHasTeam(d, slug))
    IN  IF i = 0 THEN [docs |-> ds, matchedCount |-> 0, modifiedCount |-> 0]
        ELSE LET k == TeamPos(ds[i], slug)
             IN  [ docs |-> [ds EXCEPT ![i].teams[k].members = data],
                   matchedCount |-> 1,
                   modifiedCount |-> 1 ]

\* SetTeamMembers that writes every team of the document ("teams.$[].members")
SetTeamMembers_AllTeams(ds, slug, data) ==
    LET i == FirstDoc(ds, LAMBDA d : DocHasTeam(d, slug))
    IN  IF i = 0 THEN [docs |-> ds, matchedCount |-> 0, modifiedCount |-> 0]
        ELSE [ docs |-> [ds EXCEPT ![i].teams =
                           [k \in 1..Len(@) |-> [@[k] EXCEPT !.members = data]]],
               matchedCount |-> 1,
               modifiedCount |-> 1 ]

\* updateOne({"teams._id": slug}, {$set: {"teams.$.members": data}})
SetTeamMembers(ds, slug, data) ==
    LET i == FirstDoc(ds, LAMBDA d : DocHasTeam(d, slug))
    IN  IF i = 0 THEN [docs |-> ds, matchedCount |-> 0, modifiedCount |-> 0]
        ELSE LET k == TeamPos(ds[i], slug)
             IN  [ docs |-> [ds EXCEPT ![i].teams[k].members = data],
                   matchedCount |-> 1,
                   modifiedCount |-> IF ds[i].teams[k].members = data THEN 0 ELSE 1 ]

\* POST /position/change; body.members is [isArray, items]
reorder(slug, members, dbOk) ==
    /\ now < MaxTime
    /\ now' = now + 1
    /\ UNCHANGED <<otpStore, inbox, nextOid>>
    /\ LET req == [op |-> "reorder", team |-> slug, members |-> members, at |-> now]
           data == formattedData(members.items, now)
           result == SetTeamMembers(docs, slug, data)
       IN  IF ~Truthy(slug) \/ ~members.isArray THEN
               /\ docs' = docs
               /\ last' = req @@ [status |-> 400, kind |-> "validation"]
           ELSE IF ~dbOk THEN
               /\ docs' = docs
               /\ last' = req @@ [status |-> 500, kind |-> "error"]
           ELSE
               /\ docs' = result.docs
               /\ IF result.matchedCount = 0
                  THEN last' = req @@ [status |-> 404, kind |-> "notfound"]
                  ELSE IF result.modifiedCount = 0
                  THEN last' = req @@ [status |-> 400, kind |-> "conflict"]
                  ELSE last' = req @@ [ status |-> 200, kind |-> "success",
                                        matchedCount |-> result.matchedCount,
                                        modifiedCount |-> result.modifiedCount,
                                        membersCount |-> Len(data) ]

\* the aggregate of lines 790-796: one result per (document, team) pair
\* with the id, in collection order
teamResults(ds, teamId) ==
    LET perDoc(d) == SelectSeq(d.teams, LAMBDA t : t._id = teamId)
        F[i \in 0..Len(ds)] == IF i = 0 THEN << >> ELSE F[i - 1] \o perDoc(ds[i])
    IN  F[Len(ds)]

\* POST /get/team
getTeamMembers(teamId, dbOk, uncaught) ==
    /\ now < MaxTime
    /\ now' = now + 1
    /\ UNCHANGED <<docs, otpStore, inbox, nextOid>>
    /\ LET req == [op |-> "getTeamMembers", id |-> teamId, at |-> now]
           result == teamResults(docs, teamId)
       IN  IF ~dbOk THEN
               \* connectToMongoDB() is awaited outside the try block
               last' = req @@ [status |-> uncaught, kind |-> "uncaught"]
           ELSE IF Len(result) > 0 THEN
               last' = req @@ [status |-> 200, kind |-> "success",
                               members |-> result[1].members]
           ELSE
               last' = req @@ [status |-> 404, kind |-> "notfound"]

\* time passing between requests
Tick ==
    /\ now < MaxTime
    /\ now' = now + 1
    /\ UNCHANGED <<docs, otpStore, inbox, nextOid, last>>
    /\ UNCHANGED conc

(* Requests of the model *)

Absent == [kind |-> "absent", val |-> << >>]
Arr(ids) == [kind |-> "array", val |-> ids]
Json(v) == [kind |-> "json", val |-> v]
Plain(str) == [kind |-> "plain", val |-> << str >>]

NoFile == Undefined

\* <<formData, imageFile>> pairs sent to /save/data
CreateInputs ==
    { << [name |-> "Bob", teamIds |-> Absent, teamNames |-> Absent], NoFile >>,
      << [name |-> "Bob", email |-> BobMail, content |-> "bio-b",
          designation |-> "qa", doj |-> "2021", dob |-> "1991", yoe |-> "3",
          teamIds |-> Arr(<< TechTeamId >>), teamNames |-> Absent], "bob.png" >>,
      << [name |-> "Cy", email |-> AnnMailRaw, designationText |-> "Chief",
          teamIds |-> Plain(OtherTeamId), teamNames |-> Plain("Others")], NoFile >>,
      << [name |-> "Di", email |-> AnnMail,
          teamIds |-> Json(<< HR_FINANCE_TEAM_ID, NoTeamId,
                             HR_FINANCE_TEAM_ID >>),
          teamNames |-> Absent], NoFile >>,
      << [name |-> "Ed", teamIds |-> Arr(<< OtherTeamId, AllTeamId >>),
          teamNames |-> Json(<< "", "Everyone" >>)], NoFile >>,
      << [email |-> BobMail, teamIds |-> Arr(<< TechTeamId >>),
          teamNames |-> Absent], NoFile >>,
      << [name |-> "", teamIds |-> Absent, teamNames |-> Absent], NoFile >> }

\* <<formData, imageFile>> pairs sent to /update/member
UpdateInputs ==
    { << [importance |-> "oid0", name |-> "Ann", teamIds |-> Absent,
          team |-> Absent], NoFile >>,
      << [importance |-> "oid0", name |-> "Anne", email |-> AnnMailRaw,
          about |-> "new", designation |-> "lead", designationText |-> "Lead",
          doj |-> "2022", dob |-> "1992", yoe |-> "7",
          profilePictureUrl |-> HttpUrl,
          teamIds |-> Arr(<< TechTeamId >>),
          team |-> Json(<< [_id |-> TechTeamId, name |-> "Technology"] >>)],
         NoFile >>,
      << [importance |-> "oid1", name |-> "Bobby", about |-> "new",
          profilePictureUrl |-> UploadUrl,
          teamIds |-> Json(<< HR_FINANCE_TEAM_ID, OtherTeamId >>),
          team |-> Plain("x")], NoFile >>,
      << [importance |-> "oid1", name |-> "Bob", email |-> BobMail,
          teamIds |-> Plain(OtherTeamId), team |-> Absent], "new.png" >>,
      << [importance |-> "oid0", teamIds |-> Absent, team |-> Absent], NoFile >>,
      << [name |-> "Ann", teamIds |-> Absent, team |-> Absent], NoFile >>,
      << [importance |-> "oid9", name |-> "Zed", teamIds |-> Absent,
          team |-> Absent], NoFile >> }

MemberIds == {"oid0", "oid1", "oid2", Undefined}

TeamIds == {AllTeamId, HR_FINANCE_TEAM_ID, TechTeamId, OtherTeamId, NoTeamId}

\* body.team sent to /position/change
ReorderSlugs == {AllTeamId, HR_FINANCE_TEAM_ID, NoTeamId, Undefined}

Items(seq) == [isArray |-> TRUE, items |-> seq]

\* body.members sent to /position/change
ReorderInputs ==
    { Items(<< >>),
      Items(<< [key |-> "oid0", name |-> "Ann", email |-> AnnMail,
                team |-> "Technology", position |-> 1, createdAt |-> 0] >>),
      Items(<< [name |-> "Zed", team |-> "HR, ", memberDataBio |-> "zb"],
               [key |-> "oid1", _id |-> "e1", isActive |-> FALSE] >>),
      [isArray |-> FALSE, items |-> << >>] }

DoRequestLogin ==
    /\ UNCHANGED conc
    /\ \E email \in Emails, code \in Codes, dbOk \in BOOLEAN, mailOk \in BOOLEAN :
           requestLogin(email, code, dbOk, mailOk)

DoVerifyOtp ==
    /\ UNCHANGED conc
    /\ \E email \in Emails \cup {Undefined}, otp \in Codes \cup {Undefined},
          uncaught \in UncaughtStatuses :
           verifyOtp(email, otp, uncaught)

DoCreate ==
    /\ UNCHANGED conc
    /\ \E in \in CreateInputs, dbOk \in BOOLEAN :
           \E failAt \in 0..Len(ParseList(in[1].teamIds)) + 1 :
               create(in[1], in[2], dbOk, failAt)

DoUpdate ==
    /\ UNCHANGED conc
    /\ \E in \in UpdateInputs, dbOk \in BOOLEAN : update(in[1], in[2], dbOk)

DoDelete ==
    /\ UNCHANGED conc
    /\ \E key \in MemberIds, dbOk \in BOOLEAN :
           /\ dbOk \/ key = "oid0" \/ ~Truthy(key)
           /\ delete(key, dbOk)

DoReorder ==
    /\ UNCHANGED conc
    /\ \E slug \in ReorderSlugs, members \in ReorderInputs,
          dbOk \in BOOLEAN :
           /\ \/ dbOk
              \/ slug = HR_FINANCE_TEAM_ID /\ members = Items(<< >>)
              \/ ~Truthy(slug) \/ ~members.isArray
           /\ reorder(slug, members, dbOk)

DoGetTeamMembers ==
    /\ UNCHANGED conc
    /\ \E teamId \in TeamIds, dbOk \in BOOLEAN, uncaught \in UncaughtStatuses :
           /\ dbOk \/ teamId = AllTeamId
           /\ getTeamMembers(teamId, dbOk, uncaught)

Next ==
    \/ DoRequestLogin
    \/ DoVerifyOtp
    \/ DoCreate
    \/ DoUpdate
    \/ DoDelete
    \/ DoReorder
    \/ DoGetTeamMembers
    \/ Tick

Spec == Init /\ [][Next]_vars

\* the handlers that read or write the collection
NextStore ==
    \/ DoCreate
    \/ DoUpdate
    \/ DoDelete
    \/ DoReorder
    \/ DoGetTeamMembers
    \/ Tick

SpecStore == Init /\ [][NextStore]_vars

(* The handlers await by await *)

\* One request in flight is a record procs[p]: op, the handler; pc, the
\* await it stands at; client, what connectToMongoDB() returned to it; its
\* local variables; status, the response it sent (0: none yet).  Every step
\* below is the code between two awaits; new Date() is `now` throughout.

\* the outcomes of a call on client c: a connected client serves it; on a
\* client that is closed, or not connected yet, the driver either connects
\* by itself and serves the call or rejects it, depending on its version
Outcomes(c) == IF clients[c] = "open" THEN {"ok"} ELSE {"ok", "throw"}

\* the client after the call: a closed client that served it is open again
Served(c, outcome) ==
    IF outcome = "ok" /\ clients[c] = "closed"
    THEN [clients EXCEPT ![c] = "open"]
    ELSE clients

\* lines 74-86: connectToMongoDB() up to its await, called by request p
\* whose record (without pc and client) is rec
connectToMongoDB(p, rec) ==
    IF mongoClient # 0 /\ clients[mongoClient] = "open" THEN
        /\ procs' = [procs EXCEPT ![p] =
                        rec @@ [pc |-> "connected", client |-> mongoClient]]
        /\ UNCHANGED <<mongoClient, clients>>
    ELSE
        /\ mongoClient' = p
        /\ clients' = [clients EXCEPT ![p] = "connecting"]
        /\ procs' = [procs EXCEPT ![p] =
                        rec @@ [pc |-> "connecting", client |-> 0]]

\* lines 87-89: mongoClient.connect() of the client p made resolves and
\* connectToMongoDB() returns the shared instance of that moment
ConnectDone(p) ==
    /\ procs[p].pc = "connecting"
    /\ clients' = [clients EXCEPT ![p] =
                      IF @ = "connecting" THEN "open" ELSE @]
    /\ procs' = [procs EXCEPT ![p].pc = "connected", ![p].client = mongoClient]
    /\ UNCHANGED <<docs, otpStore, inbox, now, nextOid, last, mongoClient>>

\* finally { if (client) await client.close() } of /save/data (420-425) and
\* /delete/member (504-509)
Close(p) ==
    /\ procs[p].pc = "finally"
    /\ clients' = [clients EXCEPT ![procs[p].client] = "closed"]
    /\ procs' = [procs EXCEPT ![p].pc = "done"]
    /\ UNCHANGED <<docs, otpStore, inbox, now, nextOid, last, mongoClient>>

\* POST /save/data up to `client = await connectToMongoDB()`
StartCreate(p, formData, imageFile) ==
    /\ procs[p].pc = "idle"
    /\ UNCHANGED <<docs, otpStore, inbox, now, last>>
    /\ IF createInvalid(formData) THEN
           /\ procs' = [procs EXCEPT ![p] =
                           [op |-> "create", pc |-> "done", client |-> 0,
                            formData |-> formData, status |-> 400]]
           /\ UNCHANGED <<nextOid, mongoClient, clients>>
       ELSE
           /\ nextOid <= MaxCreates
           /\ nextOid' = nextOid + 1
           /\ connectToMongoDB(p,
                  [op |-> "create", formData |-> formData,
                   memberData |-> memberData(formData, imageFile,
                                             ObjectId(nextOid), now),
                   k |-> 1, teamUpdateResults |-> << >>,
                   allTeam |-> FALSE, status |-> 0])

\* POST /save/data, one updateOne: the k-th of the loop (374-390) or, after
\* the loop, the append to All Members and the response (392-419)
CreatePush(p, outcome) ==
    /\ procs[p].op = "create" /\ procs[p].pc = "connected"
    /\ outcome \in Outcomes(procs[p].client)
    /\ clients' = Served(procs[p].client, outcome)
    /\ UNCHANGED <<otpStore, inbox, now, nextOid, last, mongoClient>>
    /\ LET r == procs[p]
           teamIds == ParseList(r.formData.teamIds)
           teamId == IF r.k <= Len(teamIds) THEN teamIds[r.k] ELSE AllTeamId
           result == PushToTeam(docs, teamId, r.memberData, now)
       IN  IF outcome = "throw" THEN
               /\ docs' = docs
               /\ procs' = [procs EXCEPT ![p].pc = "finally", ![p].status = 500]
           ELSE IF r.k <= Len(teamIds) THEN
               /\ docs' = result.docs
               /\ procs' = [procs EXCEPT
                     ![p].k = @ + 1,
                     ![p].teamUpdateResults =
                         Append(@, [ teamId |-> teamId,
                                     success |-> result.modifiedCount > 0,
                                     modifiedCount |-> result.modifiedCount ])]
           ELSE
               /\ docs' = result.docs
               /\ procs' = [procs EXCEPT ![p].pc = "finally",
                                         ![p].allTeam = result.modifiedCount > 0,
                                         ![p].status = 200]

\* what findOne returns when it finds nothing
NoDoc == [_id |-> "none", teams |-> << >>, updatedAt |-> 0]

\* POST /update/member up to `const client = await connectToMongoDB()`
StartUpdate(p, formData, imageFile) ==
    /\ procs[p].pc = "idle"
    /\ UNCHANGED <<docs, otpStore, inbox, now, nextOid, last>>
    /\ connectToMongoDB(p, [op |-> "update", formData |-> formData,
                            imageFile |-> imageFile, doc |-> NoDoc,
                            status |-> 0])

\* POST /update/member, lines 538-558: the validation and findOne
UpdateFind(p, outcome) ==
    /\ procs[p].op = "update" /\ procs[p].pc = "connected"
    /\ UNCHANGED <<docs, otpStore, inbox, now, nextOid, last, mongoClient>>
    /\ LET r == procs[p]
           memberIdToUpdate == Get(r.formData, "importance")
           i == FirstDoc(docs, LAMBDA d : DocHasMember(d, memberIdToUpdate))
       IN  IF ~Truthy(memberIdToUpdate) \/ ~Truthy(Get(r.formData, "name")) THEN
               /\ outcome = "ok"
               /\ clients' = clients
               /\ procs' = [procs EXCEPT ![p].pc = "done", ![p].status = 400]
           ELSE
               /\ outcome \in Outcomes(r.client)
               /\ clients' = Served(r.client, outcome)
               /\ IF outcome = "throw" THEN
                      procs' = [procs EXCEPT ![p].pc = "done", ![p].status = 500]
                  ELSE IF i = 0 THEN
                      procs' = [procs EXCEPT ![p].pc = "done", ![p].status = 404]
                  ELSE
                      procs' = [procs EXCEPT ![p].pc = "found", ![p].doc = docs[i]]

\* write-back that reconciles the teams the document holds when it is written
writeBack_Merge(current, doc, formData, imageFile, t) ==
    LET id == formData.importance
        member == updatedMember(formData, imageFile, current.teams, id, t)
    IN  [ current EXCEPT
            !.teams = reconcileTeams(current.teams, ParseList(formData.teamIds),
                                     id, member),
            !.updatedAt = t ]

\* lines 559-661: the document updateOne({_id: doc._id}, {$set: {teams:
\* allTeams, updatedAt}}) leaves, where allTeams is the teams array of doc,
\* the document findOne returned, reconciled in memory, and current is the
\* stored document
writeBack(current, doc, formData, imageFile, t) ==
    LET id == formData.importance
        member == updatedMember(formData, imageFile, doc.teams, id, t)
    IN  [ current EXCEPT
            !.teams = reconcileTeams(doc.teams, ParseList(formData.teamIds),
                                     id, member),
            !.updatedAt = t ]

\* POST /update/member, lines 559-682: the write-back and the response
UpdateWrite(p, outcome) ==
    /\ procs[p].op = "update" /\ procs[p].pc = "found"
    /\ outcome \in Outcomes(procs[p].client)
    /\ clients' = Served(procs[p].client, outcome)
    /\ UNCHANGED <<otpStore, inbox, now, nextOid, last, mongoClient>>
    /\ LET r == procs[p]
           j == FirstDoc(docs, LAMBDA d : d._id = r.doc._id)
           newDoc == writeBack(docs[j], r.doc, r.formData, r.imageFile, now)
       IN  IF outcome = "throw" THEN
               /\ docs' = docs
               /\ procs' = [procs EXCEPT ![p].pc = "done", ![p].status = 500]
           ELSE
               /\ docs' = [docs EXCEPT ![j] = newDoc]
               /\ procs' = [procs EXCEPT
                     ![p].pc = "done",
                     ![p].status = IF modified(newDoc, docs[j]) THEN 200 ELSE 400]

\* DELETE /delete/member up to `client = await connectToMongoDB()`
StartDelete(p, key) ==
    /\ procs[p].pc = "idle"
    /\ UNCHANGED <<docs, otpStore, inbox, now, nextOid, last>>
    /\ IF ~Truthy(key) THEN
           /\ procs' = [procs EXCEPT ![p] =
                           [op |-> "delete", pc |-> "done", client |-> 0,
                            key |-> key, status |-> 400]]
           /\ UNCHANGED <<mongoClient, clients>>
       ELSE
           connectToMongoDB(p, [op |-> "delete", key |-> key, status |-> 0])

\* DELETE /delete/member, lines 451-462: the findOne
DeleteFind(p, outcome) ==
    /\ procs[p].op = "delete" /\ procs[p].pc = "connected"
    /\ outcome \in Outcomes(procs[p].client)
    /\ clients' = Served(procs[p].client, outcome)
    /\ UNCHANGED <<docs, otpStore, inbox, now, nextOid, last, mongoClient>>
    /\ IF outcome = "throw" THEN
           procs' = [procs EXCEPT ![p].pc = "finally", ![p].status = 500]
       ELSE IF ~\E i \in 1..Len(docs) : DocHasMember(docs[i], procs[p].key) THEN
           procs' = [procs EXCEPT ![p].pc = "finally", ![p].status = 404]
       ELSE
           procs' = [procs EXCEPT ![p].pc = "found"]

\* DELETE /delete/member, lines 464-503: the updateMany and the response
DeletePull(p, outcome) ==
    /\ procs[p].op = "delete" /\ procs[p].pc = "found"
    /\ outcome \in Outcomes(procs[p].client)
    /\ clients' = Served(procs[p].client, outcome)
    /\ UNCHANGED <<otpStore, inbox, now, nextOid, last, mongoClient>>
    /\ LET result == PullFromAll(docs, procs[p].key, now)
       IN  IF outcome = "throw" THEN
               /\ docs' = docs
               /\ procs' = [procs EXCEPT ![p].pc = "finally", ![p].status = 500]
           ELSE
               /\ docs' = result.docs
               /\ procs' = [procs EXCEPT
                     ![p].pc = "finally",
                     ![p].status = IF result.modifiedCount = 0 THEN 404 ELSE 200]

\* the forms the concurrent /save/data requests send: two members, both for
\* the Technology team
ConcCreateInputs ==
    { [name |-> "Bob", email |-> BobMail, teamIds |-> Arr(<< TechTeamId >>),
       teamNames |-> Absent],
      [name |-> "Cy", teamIds |-> Arr(<< TechTeamId >>), teamNames |-> Absent] }

\* the forms the concurrent /update/member requests send
ConcUpdateInputs ==
    { [importance |-> "oid0", name |-> "Anne", about |-> "new",
       teamIds |-> Arr(<< TechTeamId >>), team |-> Absent],
      [importance |-> "oid0", name |-> "Ann", teamIds |-> Absent,
       team |-> Absent] }

\* the keys the concurrent /delete/member requests send
ConcDeleteKeys == {"oid0", "oid1"}

Outcome == {"ok", "throw"}

NextConc ==
    \E p \in Requests :
        \/ \E formData \in ConcCreateInputs : StartCreate(p, formData, NoFile)
        \/ \E formData \in ConcUpdateInputs : StartUpdate(p, formData, NoFile)
        \/ \E key \in ConcDeleteKeys : StartDelete(p, key)
        \/ ConnectDone(p)
        \/ \E outcome \in Outcome : CreatePush(p, outcome)
        \/ \E outcome \in Outcome : UpdateFind(p, outcome)
        \/ \E outcome \in Outcome : UpdateWrite(p, outcome)
        \/ \E outcome \in Outcome : DeleteFind(p, outcome)
        \/ \E outcome \in Outcome : DeletePull(p, outcome)
        \/ Close(p)

\* the handlers of create, update and delete, every await a step of its own
SpecConc == Init /\ [][NextConc]_vars

(* Properties *)

\* the step just taken is a request of kind op
Did(op) == last'.op = op /\ last'.at = now /\ now' = now + 1

\* the previous request was of kind op
Was(op) == last.op = op

\* some team with the id holds the entry
EntryInTeam(ds, teamId, entry) ==
    \E i \in 1..Len(ds) : \E k \in 1..Len(ds[i].teams) :
        /\ ds[i].teams[k]._id = teamId
        /\ entry \in SeqToSet(ds[i].teams[k].members)

\* some team of some document holds an entry of the member
MemberPresent(ds, id) == \E i \in 1..Len(ds) : DocHasMember(ds[i], id)

\* no newer code went to another spelling of the same address
Newest(email) ==
    \A r \in Emails : cleanEmail(r) = cleanEmail(email) => inbox[r].at <= inbox[email].at

\* C1: a successful requestLogin stores {code, expiresAt = now + TTL} under
\* the trimmed, lower-cased email, and a verifyOtp with that code that
\* follows it before expiry succeeds and deletes the record.
C1_LoginRoundTrip ==
    [][ /\ (Did("requestLogin") /\ last'.status = 200) =>
             otpStore'[cleanEmail(last'.email)] =
                 [otp |-> last'.devCode, expiresAt |-> last'.at + OtpTtl]
        /\ (Was("requestLogin") /\ last.status = 200 /\ Did("verifyOtp")
              /\ last'.email = last.email /\ last'.otp = last.devCode
              /\ last'.at <= last.at + OtpTtl) =>
             (last'.status = 200 /\ otpStore'[cleanEmail(last'.email)] = NoRecord)
      ]_vars

\* C2: after a successful create with a non-empty teamIds, the new entry is
\* in every requested team that was matched and in the "All Members" team,
\* the same entry (hence the same Member.id) everywhere.
C2_CreatedInMatchedAndAll ==
    (last.op = "create" /\ last.status = 200
        /\ Len(ParseList(last.formData.teamIds)) > 0) =>
        LET ids == ParseList(last.formData.teamIds)
        IN  /\ \A n \in 1..Len(ids) :
                  last.teamUpdateDetails[n].success =>
                      EntryInTeam(docs, ids[n], last.memberData)
            /\ EntryInTeam(docs, AllTeamId, last.memberData)
            /\ last.memberData.memberID._id # Undefined

C2_Witness ==
    /\ last.op = "create" /\ last.status = 200
    /\ ParseList(last.formData.teamIds) = << TechTeamId >>
    /\ last.teamUpdateDetails[1].success
    /\ EntryInTeam(docs, TechTeamId, last.memberData)
    /\ EntryInTeam(docs, AllTeamId, last.memberData)

\* the fields of the stored member a form field feeds
PatchFields ==
    << <<"email", "email">>, <<"about", "bio">>, <<"designation", "designation">>,
       <<"doj", "doj">>, <<"dob", "dob">>, <<"yoe", "yoe">> >>

\* C3: a successful update leaves every field whose form field was omitted
\* (email, about/bio, designation, doj, dob, yoe, team) as it was stored.
C3_UpdatePreservesOmitted ==
    [][ (Did("update") /\ last'.status = 200) =>
          LET form == last'.formData
              id == form.importance
          IN  \A i \in 1..Len(docs) : \A k \in 1..Len(docs[i].teams) :
                LET old == FindIndex(docs[i].teams[k].members,
                                     LAMBDA m : m.memberID._id = id)
                    new == FindIndex(docs'[i].teams[k].members,
                                     LAMBDA m : m.memberID._id = id)
                IN  (old # 0 /\ new # 0) =>
                      LET before == docs[i].teams[k].members[old].memberID
                          after == docs'[i].teams[k].members[new].memberID
                      IN  /\ \A n \in 1..Len(PatchFields) :
                                Get(form, PatchFields[n][1]) = Undefined =>
                                    after[PatchFields[n][2]] = before[PatchFields[n][2]]
                          /\ form.team.kind = "absent" => after.team = before.team
      ]_vars

\* the document whose team the /get/team query serves
ServingDoc(ds, teamId) ==
    LET i == FirstDoc(ds, LAMBDA d : DocHasTeam(d, teamId))
    IN  IF i = 0 THEN Undefined ELSE ds[i]._id

\* the step reads team t right after a successful update whose team set
\* (with "All Members") covers t, and t holds an entry of the member
ReadsUpdatedTeam ==
    /\ Was("update") /\ last.status = 200
    /\ Did("getTeamMembers") /\ last'.kind # "uncaught"
    /\ \/ last'.id = AllTeamId
       \/ last'.id \in SeqToSet(ParseList(last.formData.teamIds))
    /\ \E i \in 1..Len(docs) : \E k \in 1..Len(docs[i].teams) :
          /\ docs[i].teams[k]._id = last'.id
          /\ \E e \in SeqToSet(docs[i].teams[k].members) :
                e.memberID._id = last.formData.importance

ReturnsNewFields ==
    /\ last'.status = 200
    /\ \E e \in SeqToSet(last'.members) : e.memberID = last.data

\* C4 as stated: whichever document the team is in
C4_ReadAfterWrite_Any ==
    [][ ReadsUpdatedTeam => ReturnsNewFields ]_vars

\* C4: after a successful update, getTeamMembers(t) on a team t of the
\* document update wrote back, t being "All Members" or in the new teamIds,
\* returns an entry of the member that carries the new field values.
C4_ReadAfterWrite ==
    [][ (ReadsUpdatedTeam /\ ServingDoc(docs, last'.id) = last.doc)
            => ReturnsNewFields ]_vars

C4_Witness ==
    /\ last.op = "getTeamMembers" /\ last.status = 200
    /\ last.id = TechTeamId
    /\ \E e \in SeqToSet(last.members) :
          /\ e.memberID._id = "oid0"
          /\ e.memberID.name = "Anne"
          /\ e.memberID.updatedAt = last.at - 1

\* C5: a delete that succeeds leaves no entry of the id, and a delete of an
\* id that no team holds (deleted before and not re-added, or never there)
\* never succeeds: it returns not-found.
C5_DeleteNotIdempotent ==
    [][ /\ (Did("delete") /\ last'.status = 200) =>
               ~MemberPresent(docs', last'.key)
        /\ (Did("delete") /\ ~MemberPresent(docs, last'.key)) =>
               /\ last'.status # 200
               /\ (Truthy(last'.key) /\ last'.status # 500) => last'.status = 404
               /\ docs' = docs
      ]_vars

C5_Witness ==
    /\ last.op = "delete" /\ last.status = 404 /\ last.key = "oid0"
    /\ ~MemberPresent(docs, "oid0")
    /\ docs[1].updatedAt = last.at - 1

\* C6: a second code issued for the same email supersedes the first: a
\* verifyOtp with the first code then fails with invalid-code, and the
\* second code is still accepted.
C6_SecondCodeSupersedes ==
    [][ (Was("requestLogin") /\ last.status = 200
           /\ inbox[last.email].prev # Undefined
           /\ inbox[last.email].prev # last.devCode
           /\ Did("verifyOtp") /\ last'.email = last.email
           /\ last'.at <= last.at + OtpTtl) =>
          /\ last'.otp = inbox[last.email].prev => last'.status = 401
          /\ last'.otp = last.devCode => last'.status = 200
      ]_vars

\* C7: a code is accepted exactly once: the verifyOtp that follows its
\* issue accepts it, and a verifyOtp with the same email and code right
\* after a successful one fails with not-found.
C7_AcceptedExactlyOnce ==
    [][ /\ (Was("requestLogin") /\ last.status = 200 /\ Did("verifyOtp")
              /\ last'.email = last.email /\ last'.otp = last.devCode
              /\ last'.at <= last.at + OtpTtl) => last'.status = 200
        /\ (Was("verifyOtp") /\ last.status = 200 /\ Did("verifyOtp")
              /\ last'.email = last.email /\ last'.otp = last.otp)
              => last'.status = 404
      ]_vars

\* C8: a verifyOtp after the TTL has elapsed fails with expired, also when
\* the code matches, and removes the record; the next verifyOtp for the
\* email fails with not-found.
C8_ExpiredThenNotFound ==
    [][ /\ (Was("requestLogin") /\ last.status = 200 /\ Did("verifyOtp")
              /\ last'.email = last.email /\ Truthy(last'.otp)
              /\ last'.at > last.at + OtpTtl) =>
             (last'.status = 410 /\ otpStore'[cleanEmail(last'.email)] = NoRecord)
        /\ (Was("verifyOtp") /\ last.status = 410 /\ Did("verifyOtp")
              /\ last'.email = last.email /\ Truthy(last'.otp))
              => last'.status = 404
      ]_vars

\* C9: reorder replaces the members of the team named by teamId and leaves
\* the members of every other team, in every document, as they were.
C9_ReorderTouchesOneTeam ==
    [][ Did("reorder") =>
          /\ Len(docs') = Len(docs)
          /\ \A i \in 1..Len(docs) :
                /\ Len(docs'[i].teams) = Len(docs[i].teams)
                /\ \A k \in 1..Len(docs[i].teams) :
                      /\ docs'[i].teams[k]._id = docs[i].teams[k]._id
                      /\ docs[i].teams[k]._id # last'.team =>
                            docs'[i].teams[k].members = docs[i].teams[k].members
                      /\ (docs[i].teams[k]._id = last'.team /\ last'.status = 200) =>
                            docs'[i].teams[k].members =
                                formattedData(last'.members.items, now)
      ]_vars

C9_Witness ==
    /\ last.op = "reorder" /\ last.status = 200
    /\ last.team = HR_FINANCE_TEAM_ID
    /\ Len(last.members.items) = 2
    /\ \E i \in 1..Len(docs) : \E k \in 1..Len(docs[i].teams) :
          /\ docs[i].teams[k]._id = HR_FINANCE_TEAM_ID
          /\ Len(docs[i].teams[k].members) = 2
          /\ docs[i].teams[k].members[1].memberID._id = "auto-0"
    /\ EntryInTeam(docs, AllTeamId, [memberID |-> InitMember])

\* C10: requestLogin for an email no member has returns emailExists=false,
\* stores no OTP and sends no mail, and a verifyOtp for that email right
\* after it fails with not-found.
C10_UnknownEmailNoOtp ==
    [][ /\ (Did("requestLogin") /\ last'.status # 500
              /\ ~\E i \in 1..Len(docs) : DocHasEmail(docs[i], last'.email)) =>
             /\ last'.status = 404 /\ last'.emailExists = FALSE
             /\ otpStore' = otpStore /\ inbox' = inbox
        /\ (Was("requestLogin") /\ last.status = 404 /\ Did("verifyOtp")
              /\ last'.email = last.email /\ Truthy(last'.otp))
              => last'.status = 404
      ]_vars

\* the ids of the members some team with the id holds
IdsInTeam(ds, teamId) ==
    UNION { UNION { IF ds[i].teams[k]._id = teamId
                    THEN { e.memberID._id : e \in SeqToSet(ds[i].teams[k].members) }
                    ELSE {} : k \in 1..Len(ds[i].teams) } : i \in 1..Len(ds) }

\* the ids of the members of every team
IdsInAnyTeam(ds) ==
    UNION { { e.memberID._id : e \in DocEntries(ds[i]) } : i \in 1..Len(ds) }

\* every member of a team is a member of All Members
AllHoldsEvery(ds) == IdsInAnyTeam(ds) \subseteq IdsInTeam(ds, AllTeamId)

Others(members, id) == SelectSeq(members, LAMBDA e : e.memberID._id # id)

\* C12: after a delete that answers success no team of any document holds an
\* entry of the member, however many entries a team held, and every team
\* holds the entries of the other members as they were and in their order.
C12_DeleteRemovesEverywhere ==
    [][ (Did("delete") /\ last'.status = 200)
        => /\ ~MemberPresent(docs', last'.key)
           /\ Len(docs') = Len(docs)
           /\ \A i \in 1..Len(docs) :
                 /\ Len(docs'[i].teams) = Len(docs[i].teams)
                 /\ \A k \in 1..Len(docs[i].teams) :
                       /\ docs'[i].teams[k]._id = docs[i].teams[k]._id
                       /\ docs'[i].teams[k].members
                            = Others(docs[i].teams[k].members, last'.key) ]_vars

\* a delete removed a member that two documents held while another member
\* stays in All Members and in HR & Finance
C12_Witness ==
    /\ last.op = "delete" /\ last.status = 200
    /\ last.key = "oid1" /\ last.modifiedCount = 2
    /\ ~MemberPresent(docs, "oid1")
    /\ EntryInTeam(docs, AllTeamId, [memberID |-> InitMember])
    /\ EntryInTeam(docs, HR_FINANCE_TEAM_ID, [memberID |-> InitMember])

\* C13: a create whose name is absent or empty answers with a client error,
\* mints no member and leaves every team and every updatedAt as they were;
\* name is the only required field: a create with a name is never refused
\* as invalid, whatever else it omits (it succeeds unless the store fails).
C13_NameIsTheOnlyRequiredField ==
    [][ Did("create")
        => /\ ~Truthy(Get(last'.formData, "name"))
               => /\ last'.status = 400
                  /\ ~Has(last', "memberData")
                  /\ docs' = docs
                  /\ nextOid' = nextOid
           /\ Truthy(Get(last'.formData, "name"))
               => /\ last'.status \in {200, 500}
                  /\ last'.status = 200
                       => /\ last'.memberData.memberID.name = last'.formData.name
                          /\ MemberPresent(docs', last'.memberData.memberID._id) ]_vars

\* a create without a name (it has an email and a team) was refused and the
\* store is as it was at the start
C13_Witness ==
    /\ last.op = "create" /\ last.status = 400
    /\ ~Has(last.formData, "name") /\ Has(last.formData, "email")
    /\ docs = InitDocs /\ nextOid = 1

\* C14: a verifyOtp with a well-formed code that is not the code issued
\* fails with invalid-code and leaves the stored record as it was, and a
\* verifyOtp with the issued code that follows it before expiry succeeds.
C14_WrongCodeKeepsRecord ==
    [][ /\ (Was("requestLogin") /\ last.status = 200 /\ Did("verifyOtp")
              /\ last'.email = last.email /\ Truthy(last'.otp)
              /\ last'.otp # last.devCode
              /\ last'.at <= last.at + OtpTtl)
              => /\ last'.status = 401
                 /\ otpStore' = otpStore
                 /\ otpStore[cleanEmail(last.email)] # NoRecord
        /\ (Was("verifyOtp") /\ last.status = 401 /\ Did("verifyOtp")
              /\ last'.email = last.email
              /\ last'.otp = inbox[last.email].code /\ Newest(last.email)
              /\ last'.at <= inbox[last.email].at + OtpTtl)
              => last'.status = 200
      ]_vars

\* what the response of a request carries besides its status
ReplyBody(r) ==
    [ f \in DOMAIN r \ {"op", "email", "at", "status", "kind"} |-> r[f] ]

\* C15: the response of a successful requestLogin carries emailExists,
\* inHRTeam and codeSent only, and is the response the same request would
\* have got had any other code been generated.
C15_ReplyIndependentOfCode ==
    (last.op = "requestLogin" /\ last.status = 200)
    => /\ DOMAIN ReplyBody(last) = {"emailExists", "inHRTeam", "codeSent"}
       /\ \A c \in Codes : ReplyBody(last) = loginReply(last.inHRTeam, c)

\* C16: a successful update of a member with team set S leaves, in the
\* document it wrote, every team that is All Members or in S with an entry
\* carrying the updated payload and every other team with no entry of the
\* member; a team that is outside S and held no entry is as it was; the
\* entries of the other members keep their content and order.
C16_UpdateReconcilesEveryTeam ==
    [][ (Did("update") /\ last'.status = 200) =>
          LET id == last'.formData.importance
              S == SeqToSet(ParseList(last'.formData.teamIds))
          IN  \A i \in 1..Len(docs) : docs[i]._id = last'.doc =>
                \A k \in 1..Len(docs[i].teams) :
                  LET old == docs[i].teams[k]
                      new == docs'[i].teams[k]
                  IN  /\ new._id = old._id
                      /\ (old._id = AllTeamId \/ old._id \in S)
                           => [memberID |-> last'.data] \in SeqToSet(new.members)
                      /\ ~(old._id = AllTeamId \/ old._id \in S)
                           => \A e \in SeqToSet(new.members) : e.memberID._id # id
                      /\ (~(old._id = AllTeamId \/ old._id \in S)
                            /\ \A e \in SeqToSet(old.members) : e.memberID._id # id)
                           => new = old
                      /\ Others(new.members, id) = Others(old.members, id)
      ]_vars

\* C17: a successful update gives the member's entry a fresh updatedAt and
\* keeps its createdAt and its schema-version field, and keeps isActive
\* and createdBy where the stored entry had them.
C17_UpdateKeepsCreatedAt ==
    [][ (Did("update") /\ last'.status = 200) =>
          LET id == last'.formData.importance
          IN  \A i \in 1..Len(docs) : \A k \in 1..Len(docs[i].teams) :
                LET old == FindIndex(docs[i].teams[k].members,
                                     LAMBDA m : m.memberID._id = id)
                    new == FindIndex(docs'[i].teams[k].members,
                                     LAMBDA m : m.memberID._id = id)
                IN  (docs[i]._id = last'.doc /\ old # 0 /\ new # 0) =>
                      LET before == docs[i].teams[k].members[old].memberID
                          after == docs'[i].teams[k].members[new].memberID
                      IN  /\ after.updatedAt = now
                          /\ after.createdAt = before.createdAt
                          /\ after.__v = before.__v
                          /\ Has(before, "isActive")
                               => after.isActive = before.isActive
                          /\ Has(before, "created_by")
                               => after.created_by = before.created_by
      ]_vars

\* C18: whenever a create has appended its member to a team, also when a
\* later append of the same request failed, its response says which teams
\* were updated: it reports success for a team of teamIds exactly when the
\* member was appended to it, and "Success" for All Members exactly when
\* the member was appended there.
C18_ResponseNamesUpdatedTeams ==
    [][ (Did("create") /\ docs' # docs) =>
          LET teamIds == ParseList(last'.formData.teamIds)
              id == ObjectId(nextOid)
          IN  /\ Has(last', "teamUpdateDetails")
              /\ Len(last'.teamUpdateDetails) = Len(teamIds)
              /\ \A n \in 1..Len(teamIds) :
                    /\ last'.teamUpdateDetails[n].teamId = teamIds[n]
                    /\ last'.teamUpdateDetails[n].success
                         <=> id \in IdsInTeam(docs', teamIds[n])
              /\ last'.allTeam <=> id \in IdsInTeam(docs', AllTeamId)
      ]_vars

\* the number of entries of the member in the team
Count(ds, teamId, id) ==
    LET i == FirstDoc(ds, LAMBDA d : DocHasTeam(d, teamId))
    IN  IF i = 0 THEN 0
        ELSE Len(SelectSeq(ds[i].teams[TeamPos(ds[i], teamId)].members,
                           LAMBDA e : e.memberID._id = id))

\* C19: when two concurrent creates that name the same team have both
\* ended, under every interleaving of their steps, both succeeded, each
\* member is exactly once in that team and exactly once in All Members, the
\* document's updatedAt is refreshed and the member stored before is still
\* in its teams.
C19_ConcurrentCreatesBothLand ==
    (\A p \in Requests : procs[p].op = "create" /\ procs[p].pc = "done")
    => /\ \A p \in Requests :
             /\ procs[p].status = 200
             /\ Count(docs, TechTeamId, procs[p].memberData.memberID._id) = 1
             /\ Count(docs, AllTeamId, procs[p].memberData.memberID._id) = 1
       /\ docs[1].updatedAt = now
       /\ Count(docs, AllTeamId, InitMember._id) = 1
       /\ Count(docs, HR_FINANCE_TEAM_ID, InitMember._id) = 1

\* C20: the write-back of update stores the teams of the document it read
\* earlier, reconciled for its member, whatever the document holds by
\* then: what another request changed between the read and the write-back
\* is overwritten.
C20_WriteBackOverwrites ==
    [][ \A p \in Requests :
          ( /\ procs[p].op = "update" /\ procs[p].pc = "found"
            /\ procs'[p].pc = "done" /\ procs'[p].status \in {200, 400} )
          => LET r == procs[p]
                 id == r.formData.importance
                 member == updatedMember(r.formData, r.imageFile, r.doc.teams,
                                         id, now)
             IN  \A j \in 1..Len(docs) :
                   IF docs[j]._id = r.doc._id
                   THEN docs'[j].teams =
                          reconcileTeams(r.doc.teams,
                                         ParseList(r.formData.teamIds), id, member)
                   ELSE docs'[j] = docs[j]
      ]_vars

\* a create answered success, its member was appended to Technology and to
\* All Members, and the write-back of a concurrent update that answered
\* success has removed the member from every team
C20_Witness ==
    \E p \in Requests, q \in Requests :
        /\ procs[p].op = "update" /\ procs[p].pc = "done"
        /\ procs[p].status = 200
        /\ procs[q].op = "create" /\ procs[q].status = 200
        /\ procs[q].allTeam
        /\ procs[q].teamUpdateResults[1].success
        /\ ~MemberPresent(docs, procs[q].memberData.memberID._id)

\* C21: every invocation of a core operation ends with one response, and
\* the response is one the handler built (success, validation, not-found,
\* conflict or upstream error): none ends in an exception the handler did
\* not catch, none ends without a response.
C21_OneEnvelopePerInvocation ==
    last.op # "none" => (last.status # 0 /\ last.kind # "uncaught")

\* C22: a request that fails validation (name on create, memberId or name
\* on update, memberId on delete, team or members on reorder, email or otp
\* on verify) is answered with the validation error whatever the state of
\* the store, and leaves the collection as it was.
C22_ValidationBeforeStore ==
    [][ ( \/ Did("create") /\ ~Truthy(Get(last'.formData, "name"))
          \/ Did("update") /\ ( \/ ~Truthy(Get(last'.formData, "importance"))
                                \/ ~Truthy(Get(last'.formData, "name")) )
          \/ Did("delete") /\ ~Truthy(last'.key)
          \/ Did("reorder") /\ (~Truthy(last'.team) \/ ~last'.members.isArray)
          \/ Did("verifyOtp") /\ (~Truthy(last'.email) \/ ~Truthy(last'.otp)) )
        => (last'.status = 400 /\ docs' = docs) ]_vars

\* C23: a create, update, delete or reorder that answers success and
\* changes the teams of a document sets the updatedAt of that document to
\* the time of the request.
C23_UpdatedAtFollowsTeams ==
    [][ ( /\ \/ Did("create") \/ Did("update")
             \/ Did("delete") \/ Did("reorder")
          /\ last'.status = 200 )
        => \A i \in 1..Len(docs) :
             docs'[i].teams # docs[i].teams => docs'[i].updatedAt = now ]_vars

\* the members of the first team with the id, in collection order
MembersOf(ds, teamId) ==
    LET i == FirstDoc(ds, LAMBDA d : DocHasTeam(d, teamId))
    IN  ds[i].teams[TeamPos(ds[i], teamId)].members

\* C24: a reorder with a team id and a sequence of items, when the store
\* answers, returns not-found exactly when no team has the id, the no-op
\* error exactly when a team has it and the write leaves the collection as
\* it was, and success otherwise; not-found leaves the collection as it
\* was; on success membersCount is the number of items and the team holds
\* one entry per item, in the order of the items, with the id and the name
\* of the item or their defaults.
C24_ReorderResults ==
    [][ ( /\ Did("reorder")
          /\ Truthy(last'.team) /\ last'.members.isArray
          /\ last'.status # 500 )
        => LET teamId == last'.team
               items == last'.members.items
               exists == \E i \in 1..Len(docs) : DocHasTeam(docs[i], teamId)
           IN  /\ last'.status \in {200, 400, 404}
               /\ last'.status = 404 <=> ~exists
               /\ last'.status = 400 <=> (exists /\ docs' = docs)
               /\ last'.status = 404 => docs' = docs
               /\ last'.status = 200 =>
                     /\ last'.membersCount = Len(items)
                     /\ Len(MembersOf(docs', teamId)) = Len(items)
                     /\ \A n \in 1..Len(items) :
                           LET m == MembersOf(docs', teamId)[n].memberID
                           IN  /\ m._id = IF Has(items[n], "key")
                                           THEN items[n].key
                                           ELSE "auto-" \o ToString(n - 1)
                               /\ m.name = IF Has(items[n], "name")
                                            THEN items[n].name ELSE "N/A"
                               /\ m.updatedAt = now
      ]_vars

\* a reorder that sent the list the team already held got the no-op error
C24_Witness ==
    /\ last.op = "reorder" /\ last.status = 400 /\ last.kind = "conflict"
    /\ last.team = HR_FINANCE_TEAM_ID
    /\ MembersOf(docs, HR_FINANCE_TEAM_ID) = << >>
    /\ docs[1].updatedAt = 0

\* C25: when the dispatch of the mail fails, requestLogin answers with an
\* internal failure and the code it generated stays stored for the email,
\* so a verifyOtp with that code before expiry succeeds.
C25_MailFailureKeepsCode ==
    [][ /\ (Did("requestLogin") /\ Has(last', "code"))
              => /\ last'.status = 500
                 /\ otpStore'[cleanEmail(last'.email)] # NoRecord
                 /\ otpStore'[cleanEmail(last'.email)].otp = last'.code
        /\ (Was("requestLogin") /\ Has(last, "code") /\ Did("verifyOtp")
              /\ last'.email = last.email /\ last'.otp = last.code
              /\ last'.at <= last.at + OtpTtl)
              => last'.status = 200
      ]_vars

\* the ids new ObjectId() has handed out so far, the stored member's included
Minted(n) == { ObjectId(k) : k \in 0..n - 1 }

\* every id a team holds after the step was in a team before it, or is the
\* id the step's create has just assigned
NoIdFromNowhere ==
    IdsInAnyTeam(docs') \subseteq
        IdsInAnyTeam(docs) \cup (IF Did("create") THEN {ObjectId(nextOid)} ELSE {})

\* a successful create gives its member an id that no earlier create
\* assigned and, when the teams hold assigned ids only, that no entry has
CreateIdIsFresh ==
    (Did("create") /\ last'.status = 200)
    => /\ last'.memberData.memberID._id \notin Minted(nextOid)
       /\ IdsInAnyTeam(docs) \subseteq Minted(nextOid)
            => last'.memberData.memberID._id \notin IdsInAnyTeam(docs)

\* C26 as claimed: a create assigns an id no entry of any team has, and no
\* operation, reorder included, brings an id into a team other than the id
\* a create has just assigned.
C26_IdsComeFromCreate_Any ==
    [][ /\ (Did("create") /\ last'.status = 200)
              => last'.memberData.memberID._id \notin IdsInAnyTeam(docs)
        /\ NoIdFromNowhere ]_vars

\* C26: among create, update and delete, an id is generated at creation
\* only: a create assigns an id no earlier create assigned, and every id a
\* team holds after a create, an update or a delete was in a team before
\* it or is the id the create has just assigned.
C26_IdsComeFromCreate ==
    [][ /\ CreateIdIsFresh
        /\ (Did("create") \/ Did("update") \/ Did("delete"))
              => NoIdFromNowhere ]_vars

\* the second create assigned an id that differs from the ids of the two
\* members the teams hold
C26_Witness ==
    /\ last.op = "create" /\ last.status = 200
    /\ last.memberData.memberID._id = ObjectId(2)
    /\ {ObjectId(0), ObjectId(1), ObjectId(2)} \subseteq IdsInAnyTeam(docs)

\* no team holds two entries with the same Member.id
NoDuplicateIds(ds) ==
    \A i \in 1..Len(ds) : \A k \in 1..Len(ds[i].teams) :
        LET members == ds[i].teams[k].members
        IN  \A a \in 1..Len(members) : \A b \in 1..Len(members) :
              members[a].memberID._id = members[b].memberID._id => a = b

\* C27: a create, an update or a delete on teams that hold each Member.id
\* at most once leaves teams that hold each Member.id at most once, also
\* when the teamIds of the create contain the All Members id or the same
\* team id twice.
C27_NoDuplicateIds ==
    [][ ( /\ Did("create") \/ Did("update") \/ Did("delete")
          /\ NoDuplicateIds(docs) )
        => NoDuplicateIds(docs') ]_vars

\* request p takes a step that issues a read or a write on its client
StoreCall(p) ==
    /\ procs[p].pc \in {"connected", "found"}
    /\ procs'[p] # procs[p]
    /\ ~( /\ procs[p].op = "update" /\ procs[p].pc = "connected"
          /\ \/ ~Truthy(Get(procs[p].formData, "importance"))
             \/ ~Truthy(Get(procs[p].formData, "name")) )

\* C28: under every interleaving of two requests, no request issues a read
\* or a write on a client that a request has closed.
C28_NoCallOnClosedClient ==
    [][ \A p \in Requests :
          StoreCall(p) => clients[procs[p].client] # "closed" ]_vars

\* C29: when two concurrent deletes of the same stored member have both
\* ended, under every interleaving of their steps, one answered success
\* and the other not-found, and the member is in no team.
C29_ConcurrentDeletes ==
    (\A p \in Requests : /\ procs[p].op = "delete" /\ procs[p].pc = "done"
                         /\ procs[p].key = InitMember._id)
    => /\ {procs[p].status : p \in Requests} = {200, 404}
       /\ ~MemberPresent(docs, InitMember._id)

====
